---- MODULE Spec2Model ----
(***************************************************************************)
(* tickit-sync: the merge engine (Database::apply_changes), the change     *)
(* extractor (Database::get_changes_since) and the sync handler (api.rs)   *)
(* over the SQLite store of db.rs.                                         *)
(*                                                                         *)
(* Timestamps are DateTime<Utc> values, counted here in units of 500 ms.   *)
(* The store keeps them as RFC 3339 text (to_rfc3339), reads them back     *)
(* with parse_from_rfc3339, and the WHERE clauses of get_changes_since     *)
(* compare the text, not the instants.                                     *)
(*                                                                         *)
(* The schema declares FOREIGN KEY clauses (db.rs 76, 85, 86) and the code *)
(* never sets PRAGMA foreign_keys.  Whether SQLite enforces them is fixed  *)
(* by the build of the SQLite library (SQLITE_DEFAULT_FOREIGN_KEYS), so    *)
(* foreign_keys is chosen once, in Init, and both builds are explored.     *)
(***************************************************************************)
EXTENDS Integers, Sequences, FiniteSets, TLC

VARIABLES
    db,            \* the six tables behind Database.conn
    foreign_keys,  \* does this build of SQLite enforce FOREIGN KEY clauses
    now,           \* the server clock, Utc::now()
    lock,          \* holder of Database.conn (the Mutex), or NoDevice
    pc,            \* per device: where its call stands
    n,             \* per device: records of the batch processed by apply_changes
    conflicts,     \* per device: the Vec<Uuid> apply_changes is building
    wm,            \* per device: server_time of its previous sync (None at first)
    last,          \* history: the record processed last, what became of it, and
                   \*          the tags its task was linked to before
    tombstoned,    \* history: the Deletion apply_delete was last called for, per id
    everDeleted,   \* history: every (id, record_type) apply_delete was called for
    unseen,        \* history: per device, the stored records that another device
                   \*          committed and no response has carried to it
    sent,          \* history: the batch of the last whole apply_changes call,
                   \*          the ids it accepted, and whether it was a re-send
    own            \* history: per device, the records its sync call in progress
                   \*          committed in apply_changes

vars == <<db, foreign_keys, now, lock, pc, n, conflicts, wm,
          last, tombstoned, everDeleted, unseen, sent, own>>

-----------------------------------------------------------------------------
(* Bounds *)

\* Largest timestamp (clock value, updated_at, created_at, deleted_at).
MaxTime == 2

\* Largest number of records in the batch of one apply_changes call.
MaxBatch == 2

Times == 0 .. MaxTime

\* Option::None for a timestamp, an id and a text column.
None == -1
NoId == "none"
Null == "NULL"

\* The last_sync a request can carry.
Watermarks == Times \cup { None }
NoDevice == "nodevice"

-----------------------------------------------------------------------------
(* Conversions between values and the text the store keeps *)

\* DateTime<Utc>::to_rfc3339: seconds as two digits, the fraction only when it
\* is not zero (".500"), then the offset ("+00:00", of which "+" is kept).
\* The characters are their ASCII codes.
to_rfc3339(t) ==
    << 48 + ((t \div 2) \div 10), 48 + ((t \div 2) % 10) >>
        \o (IF t % 2 = 1 THEN << 46, 53, 48, 48 >> ELSE << >>)
        \o << 43 >>

\* DateTime::parse_from_rfc3339(..).with_timezone(&Utc)
parse_from_rfc3339(s) ==
    2 * ((s[1] - 48) * 10 + (s[2] - 48)) + (IF s[3] = 46 THEN 1 ELSE 0)

\* Option<DateTime<Utc>>.map(|dt| dt.to_rfc3339()); SQL NULL is the empty text.
opt_to_rfc3339(t) == IF t = None THEN << >> ELSE to_rfc3339(t)

\* Option<String>.and_then(|s| parse_from_rfc3339(&s).ok())
opt_parse_rfc3339(s) == IF s = << >> THEN None ELSE parse_from_rfc3339(s)

\* SQLite's ">" on two TEXT values (BINARY collation): memcmp on the common
\* prefix, then the longer text is the greater.
SqlGreaterMut(a, b) ==
    LET m == IF Len(a) < Len(b) THEN Len(a) ELSE Len(b)
        diff == { i \in 1 .. m : a[i] # b[i] }
    IN  IF Len(a) # Len(b) THEN Len(a) > Len(b)
        ELSE IF diff = {} THEN FALSE
        ELSE LET i == CHOOSE j \in diff : \A k \in diff : j <= k
             IN  a[i] > b[i]

SqlGreater(a, b) ==
    LET m == IF Len(a) < Len(b) THEN Len(a) ELSE Len(b)
        diff == { i \in 1 .. m : a[i] # b[i] }
    IN  IF diff = {} THEN Len(a) > Len(b)
        ELSE LET i == CHOOSE j \in diff : \A k \in diff : j <= k
             IN  a[i] > b[i]

\* format!("{:?}", task.priority).to_lowercase()
PriorityToDb(p) ==
    CASE p = "Low" -> "low"
      [] p = "Medium" -> "medium"
      [] p = "High" -> "high"
      [] p = "Urgent" -> "urgent"

\* collect_tasks: match priority_str
PriorityFromDb(s) ==
    CASE s = "low" -> "Low"
      [] s = "high" -> "High"
      [] s = "urgent" -> "Urgent"
      [] OTHER -> "Medium"

\* apply_delete: let type_str = match record_type
RecordTypeToDb(rt) ==
    CASE rt = "Task" -> "task"
      [] rt = "List" -> "list"
      [] rt = "Tag" -> "tag"
      [] rt = "TaskTag" -> "task_tag"

\* collect_tombstones: match record_type_str
RecordTypeFromDb(s) ==
    CASE s = "task" -> "Task"
      [] s = "list" -> "List"
      [] s = "tag" -> "Tag"
      [] s = "task_tag" -> "TaskTag"
      [] OTHER -> "Task"

\* bool as i32
BoolToDb(b) == IF b THEN 1 ELSE 0

-----------------------------------------------------------------------------
(* The store: one set of rows per table of Database::init *)

EmptyDb ==
    [ lists |-> {}, tags |-> {}, tasks |-> {}, task_tags |-> {},
      tombstones |-> {}, device_sync |-> {} ]

\* The rows of a table with the given primary key.
RowsById(table, id) == { r \in table : r.id = id }

HasRow(table, id) == RowsById(table, id) # {}

RowById(table, id) == CHOOSE r \in table : r.id = id

\* The result of one or more SQL statements: did they succeed, and the store
\* they leave (each statement commits on its own: no transaction is opened).
Ok(s) == [ ok |-> TRUE, db |-> s ]
Err(s) == [ ok |-> FALSE, db |-> s ]

\* INSERT OR IGNORE INTO task_tags (task_id, tag_id, created_at): a row with
\* the same (task_id, tag_id) makes it a no-op; otherwise an enforced foreign
\* key needs the task and the tag to exist.
InsertOrIgnoreTaskTagMut(s, task_id, tag_id, created_at) ==
    IF foreign_keys /\ ~(HasRow(s.tasks, task_id) /\ HasRow(s.tags, tag_id))
    THEN Err(s)
    ELSE Ok([ s EXCEPT !.task_tags =
                { r \in @ : ~(r.task_id = task_id /\ r.tag_id = tag_id) } \cup
                  { [ task_id |-> task_id, tag_id |-> tag_id,
                      created_at |-> to_rfc3339(created_at) ] } ])

InsertOrIgnoreTaskTag(s, task_id, tag_id, created_at) ==
    IF \E r \in s.task_tags : r.task_id = task_id /\ r.tag_id = tag_id
    THEN Ok(s)
    ELSE IF foreign_keys /\ ~(HasRow(s.tasks, task_id) /\ HasRow(s.tags, tag_id))
    THEN Err(s)
    ELSE Ok([ s EXCEPT !.task_tags = @ \cup
                { [ task_id |-> task_id, tag_id |-> tag_id,
                    created_at |-> to_rfc3339(created_at) ] } ])

\* DELETE FROM task_tags WHERE task_id = ?1
DeleteTaskTagsMut(s, task_id) == s

DeleteTaskTags(s, task_id) ==
    [ s EXCEPT !.task_tags = { r \in @ : r.task_id # task_id } ]

\* upsert_task: for tag_id in &task.tag_ids { INSERT OR IGNORE ... Utc::now() }
InsertTagIdsMut(s, task_id, tag_ids, i) ==
    IF i > Len(tag_ids) THEN Ok(s)
    ELSE InsertOrIgnoreTaskTag(s, task_id, tag_ids[i], now)

RECURSIVE InsertTagIds(_, _, _, _)
InsertTagIds(s, task_id, tag_ids, i) ==
    IF i > Len(tag_ids) THEN Ok(s)
    ELSE LET r == InsertOrIgnoreTaskTag(s, task_id, tag_ids[i], now)
         IN  IF r.ok THEN InsertTagIds(r.db, task_id, tag_ids, i + 1) ELSE r

\* The row upsert_task's INSERT writes.
TaskRow(task) ==
    [ id |-> task.id, title |-> task.title, description |-> task.description,
      url |-> task.url, priority |-> PriorityToDb(task.priority),
      completed |-> BoolToDb(task.completed), list_id |-> task.list_id,
      created_at |-> to_rfc3339(task.created_at),
      updated_at |-> to_rfc3339(task.updated_at),
      completed_at |-> opt_to_rfc3339(task.completed_at),
      due_date |-> opt_to_rfc3339(task.due_date) ]

\* The row upsert_task's UPDATE leaves: every column but id and created_at.
TaskRowUpdatedMut(old, task) ==
    [ TaskRow(task) EXCEPT !.created_at = old.created_at,
                           !.completed_at = old.completed_at ]

TaskRowUpdated(old, task) ==
    [ TaskRow(task) EXCEPT !.created_at = old.created_at ]

\* upsert_task: if task.updated_at <= existing_dt
TaskIsStaleMut(existing_dt, task) == task.updated_at < existing_dt

TaskIsStale(existing_dt, task) == task.updated_at <= existing_dt

\* upsert_task after the conflict test: the UPDATE or the INSERT of the row
\* (an enforced foreign key needs list_id to name a stored list), then the
\* DELETE of the task's links and one INSERT OR IGNORE per tag id.
WriteTask(s, task) ==
    IF foreign_keys /\ ~HasRow(s.lists, task.list_id) THEN Err(s)
    ELSE LET s1 == IF HasRow(s.tasks, task.id)
                   THEN [ s EXCEPT !.tasks = (@ \ RowsById(@, task.id)) \cup
                            { TaskRowUpdated(RowById(s.tasks, task.id), task) } ]
                   ELSE [ s EXCEPT !.tasks = @ \cup { TaskRow(task) } ]
             s2 == DeleteTaskTags(s1, task.id)
         IN  InsertTagIds(s2, task.id, task.tag_ids, 1)

\* Database::upsert_task: Ok(Some(id)) is a conflict, Ok(None) an accepted
\* record, Err a failed statement.
upsert_taskMut(s, task) ==
    IF \/ /\ HasRow(s.tasks, task.id)
          /\ TaskIsStale(parse_from_rfc3339(RowById(s.tasks, task.id).updated_at), task)
       \/ \E t \in s.tombstones :
             t.id = task.id /\ task.updated_at <= parse_from_rfc3339(t.deleted_at)
    THEN [ ok |-> TRUE, db |-> s, conflict |-> task.id ]
    ELSE LET r == WriteTask(s, task)
         IN  [ ok |-> r.ok, db |-> r.db, conflict |-> NoId ]

upsert_task(s, task) ==
    IF HasRow(s.tasks, task.id)
         /\ TaskIsStale(parse_from_rfc3339(RowById(s.tasks, task.id).updated_at), task)
    THEN [ ok |-> TRUE, db |-> s, conflict |-> task.id ]
    ELSE LET r == WriteTask(s, task)
         IN  [ ok |-> r.ok, db |-> r.db, conflict |-> NoId ]

\* The row upsert_list's INSERT writes.
ListRow(list) ==
    [ id |-> list.id, name |-> list.name, description |-> list.description,
      icon |-> list.icon, color |-> list.color,
      is_inbox |-> BoolToDb(list.is_inbox), sort_order |-> list.sort_order,
      created_at |-> to_rfc3339(list.created_at),
      updated_at |-> to_rfc3339(list.updated_at) ]

\* The row upsert_list's UPDATE leaves: is_inbox and created_at are not set.
ListRowUpdatedMut(old, list) ==
    [ ListRow(list) EXCEPT !.created_at = old.created_at ]

ListRowUpdated(old, list) ==
    [ ListRow(list) EXCEPT !.is_inbox = old.is_inbox,
                           !.created_at = old.created_at ]

\* upsert_list: if list.updated_at <= existing_dt
ListIsStaleMut(existing_dt, list) == list.updated_at < existing_dt

ListIsStale(existing_dt, list) == list.updated_at <= existing_dt

\* Database::upsert_list
upsert_list(s, list) ==
    IF HasRow(s.lists, list.id)
    THEN IF ListIsStale(parse_from_rfc3339(RowById(s.lists, list.id).updated_at), list)
         THEN [ ok |-> TRUE, db |-> s, conflict |-> list.id ]
         ELSE [ ok |-> TRUE, conflict |-> NoId,
                db |-> [ s EXCEPT !.lists = (@ \ RowsById(@, list.id)) \cup
                           { ListRowUpdated(RowById(s.lists, list.id), list) } ] ]
    ELSE [ ok |-> TRUE, conflict |-> NoId,
           db |-> [ s EXCEPT !.lists = @ \cup { ListRow(list) } ] ]

\* Database::upsert_tag: INSERT OR REPLACE INTO tags.  REPLACE deletes the row
\* with the same id first, and with enforced foreign keys that delete cascades
\* to the task_tags rows of the tag (ON DELETE CASCADE, db.rs 86).
upsert_tagMut(s, tag) ==
    IF HasRow(s.tags, tag.id)
         /\ tag.created_at <= parse_from_rfc3339(RowById(s.tags, tag.id).created_at)
    THEN [ ok |-> TRUE, db |-> s, conflict |-> tag.id ]
    ELSE [ ok |-> TRUE, conflict |-> NoId,
           db |-> [ s EXCEPT !.tags = (@ \ RowsById(@, tag.id)) \cup
                      { [ id |-> tag.id, name |-> tag.name, color |-> tag.color,
                          created_at |-> to_rfc3339(tag.created_at) ] } ] ]

upsert_tag(s, tag) ==
    LET s1 == IF foreign_keys /\ HasRow(s.tags, tag.id)
              THEN [ s EXCEPT !.task_tags = { r \in @ : r.tag_id # tag.id } ]
              ELSE s
    IN  [ ok |-> TRUE, conflict |-> NoId,
          db |-> [ s1 EXCEPT !.tags = (@ \ RowsById(@, tag.id)) \cup
                     { [ id |-> tag.id, name |-> tag.name, color |-> tag.color,
                         created_at |-> to_rfc3339(tag.created_at) ] } ] ]

\* Database::upsert_task_tag
upsert_task_tag(s, link) ==
    LET r == InsertOrIgnoreTaskTag(s, link.task_id, link.tag_id, link.created_at)
    IN  [ ok |-> r.ok, db |-> r.db, conflict |-> NoId ]

\* apply_delete: INSERT OR REPLACE INTO tombstones; the table's primary key
\* is id alone (db.rs 91).
RecordTombstoneMut(s, id, record_type, deleted_at) == s

RecordTombstoneGreatest(s, id, record_type, deleted_at) ==
    IF \E t \in s.tombstones :
          t.id = id /\ SqlGreater(t.deleted_at, to_rfc3339(deleted_at))
    THEN s
    ELSE [ s EXCEPT !.tombstones = (@ \ RowsById(@, id)) \cup
             { [ id |-> id, record_type |-> RecordTypeToDb(record_type),
                 deleted_at |-> to_rfc3339(deleted_at) ] } ]

RecordTombstone(s, id, record_type, deleted_at) ==
    [ s EXCEPT !.tombstones = (@ \ RowsById(@, id)) \cup
        { [ id |-> id, record_type |-> RecordTypeToDb(record_type),
            deleted_at |-> to_rfc3339(deleted_at) ] } ]

\* apply_delete: "DELETE FROM lists WHERE id = ?1 AND is_inbox = 0"
ListsToDeleteMut(s, id) == { r \in s.lists : r.id = id }

ListsToDelete(s, id) == { r \in s.lists : r.id = id /\ r.is_inbox = 0 }

\* apply_delete: match record_type { ... }, the DELETE of the row(s).  With
\* enforced foreign keys deleting a task or a tag cascades to task_tags, and
\* deleting a list that a task still names fails.
DeleteRecordMut(s, id, record_type) ==
    CASE record_type = "Task" ->
           Ok([ s EXCEPT !.tasks = @ \ RowsById(@, id),
                         !.task_tags = IF foreign_keys
                                       THEN { r \in @ : r.task_id # id }
                                       ELSE @ ])
      [] record_type = "List" ->
           IF foreign_keys /\ ListsToDelete(s, id) # {}
                /\ \E t \in s.tasks : t.list_id = id
           THEN Err(s)
           ELSE Ok([ s EXCEPT !.lists = @ \ ListsToDelete(s, id) ])
      [] record_type = "Tag" ->
           Ok([ s EXCEPT !.tags = @ \ RowsById(@, id),
                         !.task_tags = IF foreign_keys
                                       THEN { r \in @ : r.tag_id # id }
                                       ELSE @ ])
      [] record_type = "TaskTag" ->
           Ok([ s EXCEPT !.tasks = @ \ RowsById(@, id),
                         !.task_tags = { r \in @ : r.task_id # id } ])

DeleteRecord(s, id, record_type) ==
    CASE record_type = "Task" ->
           Ok([ s EXCEPT !.tasks = @ \ RowsById(@, id),
                         !.task_tags = IF foreign_keys
                                       THEN { r \in @ : r.task_id # id }
                                       ELSE @ ])
      [] record_type = "List" ->
           IF foreign_keys /\ ListsToDelete(s, id) # {}
                /\ \E t \in s.tasks : t.list_id = id
           THEN Err(s)
           ELSE Ok([ s EXCEPT !.lists = @ \ ListsToDelete(s, id) ])
      [] record_type = "Tag" ->
           Ok([ s EXCEPT !.tags = @ \ RowsById(@, id),
                         !.task_tags = IF foreign_keys
                                       THEN { r \in @ : r.tag_id # id }
                                       ELSE @ ])
      [] record_type = "TaskTag" ->
           Ok(DeleteTaskTags(s, id))

\* Database::apply_delete
apply_delete(s, id, record_type, deleted_at) ==
    LET r == DeleteRecord(RecordTombstone(s, id, record_type, deleted_at),
                          id, record_type)
    IN  [ ok |-> r.ok, db |-> r.db, conflict |-> NoId ]

\* apply_changes: match change { ... }, one record of the batch.
ApplyOne(s, change) ==
    CASE change.type = "task" -> upsert_task(s, change.task)
      [] change.type = "list" -> upsert_list(s, change.list)
      [] change.type = "tag" -> upsert_tag(s, change.tag)
      [] change.type = "task_tag" -> upsert_task_tag(s, change.link)
      [] change.type = "deleted" ->
           apply_delete(s, change.id, change.record_type, change.deleted_at)

\* What the storage does to the statements of one record: nothing, fail the
\* "SELECT updated_at" of upsert_task / upsert_list alone, or fail them all.
StorageFaults == { "none", "lookup", "all" }

\* upsert_task / upsert_list with a failing SELECT: query_row(..).ok() turns
\* the error into None, the same as for an id that is not stored, and the
\* function goes on to the INSERT, which fails on the primary key when the
\* id is stored.
ApplyOneFaulty(s, change, fault) ==
    CASE fault = "all" -> [ ok |-> FALSE, db |-> s, conflict |-> NoId ]
      [] fault = "lookup" /\ change.type = "task" /\ HasRow(s.tasks, change.task.id) ->
           [ ok |-> FALSE, db |-> s, conflict |-> NoId ]
      [] fault = "lookup" /\ change.type = "list" /\ HasRow(s.lists, change.list.id) ->
           [ ok |-> FALSE, db |-> s, conflict |-> NoId ]
      [] OTHER -> ApplyOne(s, change)

\* apply_changes: the loop from record i on, with the conflicts found so far.
\* A failed statement ends the call with Err: no conflict list is returned.
RECURSIVE ApplyFromMut(_, _, _, _)
ApplyFromMut(s, changes, i, found) ==
    IF i > Len(changes) THEN [ ok |-> TRUE, db |-> s, conflicts |-> found ]
    ELSE LET r == ApplyOne(s, changes[i])
         IN  ApplyFromMut(r.db, changes, i + 1,
                          IF r.ok /\ r.conflict # NoId THEN Append(found, r.conflict)
                          ELSE found)

RECURSIVE ApplyFromUntilConflict(_, _, _, _)
ApplyFromUntilConflict(s, changes, i, found) ==
    IF i > Len(changes) THEN [ ok |-> TRUE, db |-> s, conflicts |-> found ]
    ELSE LET r == ApplyOne(s, changes[i])
         IN  IF ~r.ok THEN [ ok |-> FALSE, db |-> r.db, conflicts |-> << >> ]
             ELSE IF r.conflict # NoId
             THEN [ ok |-> TRUE, db |-> r.db, conflicts |-> Append(found, r.conflict) ]
             ELSE ApplyFromUntilConflict(r.db, changes, i + 1, found)

RECURSIVE ApplyFrom(_, _, _, _)
ApplyFrom(s, changes, i, found) ==
    IF i > Len(changes) THEN [ ok |-> TRUE, db |-> s, conflicts |-> found ]
    ELSE LET r == ApplyOne(s, changes[i])
         IN  IF ~r.ok THEN [ ok |-> FALSE, db |-> r.db, conflicts |-> << >> ]
             ELSE ApplyFrom(r.db, changes, i + 1,
                            IF r.conflict # NoId THEN Append(found, r.conflict)
                            ELSE found)

\* apply_changes inside a transaction that a failed statement rolls back.
apply_changesAtomic(s, changes) ==
    LET r == ApplyFrom(s, changes, 1, << >>)
    IN  IF r.ok THEN r ELSE [ ok |-> FALSE, db |-> s, conflicts |-> << >> ]

\* Database::apply_changes, the whole call.
apply_changes(s, changes) == ApplyFrom(s, changes, 1, << >>)

-----------------------------------------------------------------------------
(* The change extractor *)

Range(seq) == { seq[i] : i \in 1 .. Len(seq) }

\* The rows a SELECT returns, as a Vec: SQLite fixes no order without ORDER BY,
\* and no caller depends on one.
RECURSIVE SetToSeq(_)
SetToSeq(S) ==
    IF S = {} THEN << >>
    ELSE LET x == CHOOSE y \in S : TRUE IN << x >> \o SetToSeq(S \ { x })

\* "WHERE <column> > ?1" with since_str = since.map(|dt| dt.to_rfc3339()), or
\* no WHERE clause when since is None.
SinceMut(table, column, since) ==
    IF since = None THEN table
    ELSE { r \in table : ~SqlGreater(to_rfc3339(since), r[column]) }

Since(table, column, since) ==
    IF since = None THEN table
    ELSE { r \in table : SqlGreater(r[column], to_rfc3339(since)) }

\* collect_lists
ListOfRow(r) ==
    [ type |-> "list",
      list |-> [ id |-> r.id, name |-> r.name, description |-> r.description,
                 icon |-> r.icon, color |-> r.color, is_inbox |-> (r.is_inbox # 0),
                 sort_order |-> r.sort_order,
                 created_at |-> parse_from_rfc3339(r.created_at),
                 updated_at |-> parse_from_rfc3339(r.updated_at) ] ]

\* collect_tags
TagOfRow(r) ==
    [ type |-> "tag",
      tag |-> [ id |-> r.id, name |-> r.name, color |-> r.color,
                created_at |-> parse_from_rfc3339(r.created_at) ] ]

\* collect_tasks: the row, then "SELECT tag_id FROM task_tags WHERE task_id = ?1"
TaskOfRowMut(s, r) ==
    [ type |-> "task",
      task |-> [ id |-> r.id, title |-> r.title, description |-> r.description,
                 url |-> r.url, priority |-> PriorityFromDb(r.priority),
                 completed |-> (r.completed # 0), list_id |-> r.list_id,
                 tag_ids |-> << >>,
                 created_at |-> parse_from_rfc3339(r.created_at),
                 updated_at |-> parse_from_rfc3339(r.updated_at),
                 completed_at |-> opt_parse_rfc3339(r.completed_at),
                 due_date |-> opt_parse_rfc3339(r.due_date) ] ]

TaskOfRow(s, r) ==
    [ type |-> "task",
      task |-> [ id |-> r.id, title |-> r.title, description |-> r.description,
                 url |-> r.url, priority |-> PriorityFromDb(r.priority),
                 completed |-> (r.completed # 0), list_id |-> r.list_id,
                 tag_ids |-> SetToSeq({ l.tag_id : l \in
                                 { k \in s.task_tags : k.task_id = r.id } }),
                 created_at |-> parse_from_rfc3339(r.created_at),
                 updated_at |-> parse_from_rfc3339(r.updated_at),
                 completed_at |-> opt_parse_rfc3339(r.completed_at),
                 due_date |-> opt_parse_rfc3339(r.due_date) ] ]

\* collect_tombstones, then SyncRecord::Deleted { id, record_type, deleted_at }
DeletedOfRow(r) ==
    [ type |-> "deleted", id |-> r.id,
      record_type |-> RecordTypeFromDb(r.record_type),
      deleted_at |-> parse_from_rfc3339(r.deleted_at) ]

\* get_changes_since: the tombstones SELECT
TombstonesSinceMut(s, since) ==
    IF since = None THEN s.tombstones
    ELSE { r \in s.tombstones : SqlGreater(to_rfc3339(since), r.deleted_at) }

TombstonesSince(s, since) == Since(s.tombstones, "deleted_at", since)

\* Database::get_changes_since: lists, then tags, then tasks, then tombstones.
get_changes_sinceMut(s, since) ==
    SetToSeq({ ListOfRow(r) : r \in Since(s.lists, "updated_at", since) })
      \o SetToSeq({ TaskOfRow(s, r) : r \in Since(s.tasks, "updated_at", since) })
      \o SetToSeq({ TagOfRow(r) : r \in Since(s.tags, "created_at", since) })
      \o SetToSeq({ DeletedOfRow(r) : r \in TombstonesSince(s, since) })

get_changes_sinceStored(s, since) ==
    LET last_sync == IF s.device_sync = {} THEN since
                     ELSE parse_from_rfc3339(
                            (CHOOSE r \in s.device_sync :
                               \A q \in s.device_sync :
                                  ~SqlGreater(r.last_sync, q.last_sync)).last_sync)
    IN  SetToSeq({ ListOfRow(r) : r \in Since(s.lists, "updated_at", last_sync) })
          \o SetToSeq({ TagOfRow(r) : r \in Since(s.tags, "created_at", last_sync) })
          \o SetToSeq({ TaskOfRow(s, r) : r \in Since(s.tasks, "updated_at", last_sync) })
          \o SetToSeq({ DeletedOfRow(r) : r \in TombstonesSince(s, last_sync) })

get_changes_since(s, since) ==
    SetToSeq({ ListOfRow(r) : r \in Since(s.lists, "updated_at", since) })
      \o SetToSeq({ TagOfRow(r) : r \in Since(s.tags, "created_at", since) })
      \o SetToSeq({ TaskOfRow(s, r) : r \in Since(s.tasks, "updated_at", since) })
      \o SetToSeq({ DeletedOfRow(r) : r \in TombstonesSince(s, since) })

-----------------------------------------------------------------------------
(* Inputs: the records a client can put in a batch *)

Devices == { "d1", "d2" }

\* Two Lists that differ in every field but the id.
AList(id, v, u) ==
    IF v = 1
    THEN [ id |-> id, name |-> "a", description |-> Null, icon |-> "i1",
           color |-> Null, is_inbox |-> TRUE, sort_order |-> 0,
           created_at |-> 0, updated_at |-> u ]
    ELSE [ id |-> id, name |-> "b", description |-> "d", icon |-> "i2",
           color |-> "c", is_inbox |-> FALSE, sort_order |-> 1,
           created_at |-> 1, updated_at |-> u ]

\* Two Tasks that differ in every field but the id.
ATask(id, v, tag_ids, u) ==
    IF v = 1
    THEN [ id |-> id, title |-> "a", description |-> Null, url |-> Null,
           priority |-> "Low", completed |-> FALSE, list_id |-> "l1",
           tag_ids |-> tag_ids, created_at |-> 0, updated_at |-> u,
           completed_at |-> None, due_date |-> None ]
    ELSE [ id |-> id, title |-> "b", description |-> "d", url |-> "u",
           priority |-> "Urgent", completed |-> TRUE, list_id |-> "l2",
           tag_ids |-> tag_ids, created_at |-> 1, updated_at |-> u,
           completed_at |-> 1, due_date |-> 1 ]

ATag(id, v, c) ==
    [ id |-> id, name |-> (IF v = 1 THEN "a" ELSE "b"),
      color |-> (IF v = 1 THEN "c1" ELSE "c2"), created_at |-> c ]

ListChange(l) == [ type |-> "list", list |-> l ]
TaskChange(t) == [ type |-> "task", task |-> t ]
TagChange(g) == [ type |-> "tag", tag |-> g ]
LinkChange(task_id, tag_id, c) ==
    [ type |-> "task_tag",
      link |-> [ task_id |-> task_id, tag_id |-> tag_id, created_at |-> c ] ]
Deletion(id, record_type, t) ==
    [ type |-> "deleted", id |-> id, record_type |-> record_type, deleted_at |-> t ]

TagIds == { "g1", "g2" }

\* tag_ids is a Vec<Uuid>: it may be empty and may repeat an id.
TagIdSeqs == { << >>, << "g1" >>, << "g1", "g1" >>, << "g1", "g2" >> }

\* The ids a Deletion can name, each with the record types a client deletes
\* it as: a task id is sent both as a Task and as a TaskTag deletion.
DeletionKeys ==
    { << "t1", "Task" >>, << "t1", "TaskTag" >>, << "l1", "List" >> }

DeletionIds == { k[1] : k \in DeletionKeys } \cup { "g1" }

\* The batches of the last-writer-wins runs: two versions of a List and of a
\* Task at every timestamp, with the List and the Tag the Tasks name.
LwwChanges ==
    { ListChange(AList("l1", v, u)) : v \in { 1, 2 }, u \in Times }
      \cup { ListChange(AList("l2", 2, 0)) }
      \cup { TaskChange(ATask("t1", 1, << "g1" >>, u)) : u \in Times }
      \cup { TaskChange(ATask("t1", 2, << >>, u)) : u \in Times }
      \cup { TagChange(ATag("g1", 1, 0)) }

\* The batches of the tag-set runs: one Task with every tag_ids, and the
\* Tags and TaskTagLinks a client sends beside it.
TagSetChanges ==
    { ListChange(AList("l1", 1, 0)) }
      \cup { TaskChange(ATask("t1", 1, g, u)) : g \in TagIdSeqs, u \in Times }
      \cup { TagChange(ATag(g, 1, 0)) : g \in TagIds }
      \cup { LinkChange("t1", g, 0) : g \in TagIds }

\* The batches of the re-send runs: records of every kind about one Task.
ReplayChanges ==
    { ListChange(AList("l1", 1, 0)), ListChange(AList("l1", 2, 1)) }
      \cup { TaskChange(ATask("t1", 1, << "g1" >>, u)) : u \in Times }
      \cup { TaskChange(ATask("t1", 1, << >>, 0)) }
      \cup { TagChange(ATag("g1", 1, 0)), LinkChange("t1", "g1", 0),
             Deletion("t1", "Task", 0) }

\* The non-empty batches of at most MaxBatch records.
Batches(changes) == UNION { [ 1 .. m -> changes ] : m \in 1 .. MaxBatch }

\* The batches of the deletion runs: the inbox List or a plain List, a Task
\* in it, and Deletions of both at every timestamp.
TombChanges ==
    { ListChange(AList("l1", v, 0)) : v \in { 1, 2 } }
      \cup { TaskChange(ATask("t1", 1, << >>, 0)) }
      \cup { Deletion(k[1], k[2], t) : k \in DeletionKeys, t \in Times }

\* The batches of the sync runs: a List, a Task in it edited two ways at
\* every timestamp, a Task of a List that is not stored, and a Deletion.
SyncChanges ==
    { ListChange(AList("l1", 1, 0)) }
      \cup { TaskChange(ATask("t1", 1, << >>, u)) : u \in Times }
      \cup { TaskChange(ATask("t1", 2, << >>, 0)) }
      \cup { Deletion("t1", "Task", 1) }

\* The batches of the tag and link runs: a Tag in two versions, each with
\* two creation stamps, a Task and its List, TaskTagLinks of the pair with two
\* creation stamps, and the Deletions of the Tag and of the Task's links.
KindChanges ==
    { ListChange(AList("l1", 2, 0)), TaskChange(ATask("t1", 1, << >>, 0)) }
      \cup { TagChange(ATag("g1", v, c)) : v \in { 1, 2 }, c \in { 0, 1 } }
      \cup { LinkChange("t1", "g1", c) : c \in { 0, 1 } }
      \cup { Deletion("t1", "TaskTag", 0), Deletion("g1", "Tag", 0) }

\* The Deletions of the removal runs: each kind of row by its own id, and
\* by the id of a row of another kind.
RemovalKeys ==
    { << "t1", "Task" >>, << "t1", "TaskTag" >>, << "l1", "List" >>,
      << "g1", "Tag" >>, << "l1", "Task" >>, << "t1", "Tag" >> }

\* The batches of the removal runs: the inbox List or a plain List, a Task in
\* it, a Tag, their link, and the Deletions.
RemovalChanges ==
    { ListChange(AList("l1", v, 0)) : v \in { 1, 2 } }
      \cup { TaskChange(ATask("t1", 1, << >>, 0)), TagChange(ATag("g1", 1, 0)),
             LinkChange("t1", "g1", 0) }
      \cup { Deletion(k[1], k[2], 0) : k \in RemovalKeys }

\* The batches of the extraction runs: a List, a Tag and a Task stamped at
\* every timestamp, and the Deletion of the Task at every timestamp.
ExtractChanges ==
    { ListChange(AList("l1", 2, u)) : u \in Times }
      \cup { TagChange(ATag("g1", 1, c)) : c \in Times }
      \cup { TaskChange(ATask("t1", 1, << >>, u)) : u \in Times }
      \cup { Deletion("t1", "Task", t) : t \in Times }

\* The batches of the concurrent runs: a List, a Task in it at two
\* timestamps, and the Deletion of the Task.
LockChanges ==
    { ListChange(AList("l1", 1, 0)), Deletion("t1", "Task", 0) }
      \cup { TaskChange(ATask("t1", 1, << >>, u)) : u \in { 0, 1 } }

\* The batches of the storage-fault runs: a List and a Task, each at two
\* timestamps.
FaultChanges ==
    { ListChange(AList("l1", 1, u)) : u \in { 0, 1 } }
      \cup { TaskChange(ATask("t1", 1, << >>, u)) : u \in { 0, 1 } }

\* The batches of the inbox runs: the inbox List and a plain List of the
\* same id, and a Task in it, at every timestamp, and the Deletions of both.
InboxChanges ==
    { ListChange(AList("l1", v, u)) : v \in { 1, 2 }, u \in Times }
      \cup { TaskChange(ATask("t1", 1, << >>, u)) : u \in Times }
      \cup { Deletion("l1", "List", t) : t \in { 0, MaxTime } }
      \cup { Deletion("t1", "Task", t) : t \in { 0, MaxTime } }

\* The batches of the late-deletion runs: a List (the inbox or a plain one)
\* and a Task in it stamped with the latest time, and Deletions of both
\* stamped with the earliest and the latest.
DeleteChanges ==
    { ListChange(AList("l1", v, MaxTime)) : v \in { 1, 2 } }
      \cup { TaskChange(ATask("t1", 1, << >>, MaxTime)) }
      \cup { Deletion("l1", "List", t) : t \in { 0, MaxTime } }
      \cup { Deletion("t1", "Task", t) : t \in { 0, MaxTime } }

\* Their batches hold one record more, so that one call can write a
\* tombstone, write the row again and delete it.
DeleteBatches ==
    UNION { [ 1 .. m -> DeleteChanges ] : m \in 1 .. MaxBatch + 1 }

\* The batches of the failing sync calls: a plain List, a Task in it, and
\* the Deletion of the List.  Where foreign keys are enforced the Task fails
\* without its List, and the Deletion of the List fails while the Task is
\* stored.
PartialChanges ==
    { ListChange(AList("l1", 2, 0)), TaskChange(ATask("t1", 1, << >>, 0)),
      Deletion("l1", "List", 0) }

\* The requests of the sync runs carry no record or one.
SyncBatches == { << >> } \cup { << change >> : change \in SyncChanges }

-----------------------------------------------------------------------------
(* State *)

NoChange == [ type |-> "none" ]

Init ==
    /\ db = EmptyDb
    /\ foreign_keys \in BOOLEAN
    /\ now = 0
    /\ lock = NoDevice
    /\ pc = [ d \in Devices |-> "idle" ]
    /\ n = [ d \in Devices |-> 0 ]
    /\ conflicts = [ d \in Devices |-> << >> ]
    /\ wm = [ d \in Devices |-> None ]
    /\ last = [ change |-> NoChange, out |-> "none", old_tags |-> {} ]
    /\ tombstoned = [ id \in DeletionIds |->
                        [ record_type |-> "none", deleted_at |-> None ] ]
    /\ everDeleted = {}
    /\ unseen = [ d \in Devices |-> {} ]
    /\ sent = [ batch |-> << >>, phase |-> "none", ok |-> TRUE, accepted |-> {} ]
    /\ own = [ d \in Devices |-> {} ]

\* What became of a record: rejected, written over a stored row, written as
\* a new row, ignored (a TaskTagLink whose pair is stored), applied (a
\* Deletion), or a failed statement.
Outcome(s, change, r) ==
    CASE ~r.ok -> "error"
      [] r.conflict # NoId -> "conflict"
      [] change.type = "task" ->
           IF HasRow(s.tasks, change.task.id) THEN "updated" ELSE "inserted"
      [] change.type = "list" ->
           IF HasRow(s.lists, change.list.id) THEN "updated" ELSE "inserted"
      [] change.type = "tag" ->
           IF HasRow(s.tags, change.tag.id) THEN "replaced" ELSE "inserted"
      [] change.type = "task_tag" ->
           IF r.db.task_tags = s.task_tags THEN "ignored" ELSE "inserted"
      [] OTHER -> "applied"

\* apply_changes without waiting for the Mutex.
ApplyBeginMut(d) ==
    /\ pc[d] \in { "idle", "failed" }
    /\ lock' = d
    /\ pc' = [ pc EXCEPT ![d] = "apply" ]
    /\ n' = [ n EXCEPT ![d] = 0 ]
    /\ conflicts' = [ conflicts EXCEPT ![d] = << >> ]
    /\ UNCHANGED << db, foreign_keys, now, wm, last, tombstoned,
                    everDeleted, unseen, sent, own >>

\* apply_changes: let conn = self.conn.lock().unwrap(); let mut conflicts = Vec::new();
ApplyBegin(d) ==
    /\ pc[d] \in { "idle", "failed" }
    /\ lock = NoDevice
    /\ lock' = d
    /\ pc' = [ pc EXCEPT ![d] = "apply" ]
    /\ n' = [ n EXCEPT ![d] = 0 ]
    /\ conflicts' = [ conflicts EXCEPT ![d] = << >> ]
    /\ UNCHANGED << db, foreign_keys, now, wm, last, tombstoned,
                    everDeleted, unseen, sent, own >>

\* apply_changes: one turn of "for change in changes".  A failed statement
\* leaves through "?": the guard is dropped and the caller gets the error.
ApplyRecordWith(d, change, r) ==
    /\ pc[d] = "apply"
    /\ lock = d
    /\ n[d] < MaxBatch
    /\ db' = r.db
    /\ last' = [ change |-> change, out |-> Outcome(db, change, r),
                 old_tags |-> { k.tag_id : k \in
                                 { l \in db.task_tags :
                                     l.task_id = ( CASE change.type = "task" -> change.task.id
                                                     [] change.type = "deleted" -> change.id
                                                     [] OTHER -> NoId ) } } ]
    /\ IF r.ok
       THEN /\ n' = [ n EXCEPT ![d] = @ + 1 ]
            /\ conflicts' = IF r.conflict # NoId
                            THEN [ conflicts EXCEPT ![d] = Append(@, r.conflict) ]
                            ELSE conflicts
            /\ UNCHANGED << pc, lock >>
       ELSE /\ pc' = [ pc EXCEPT ![d] = "failed" ]
            /\ lock' = NoDevice
            /\ conflicts' = [ conflicts EXCEPT ![d] = << >> ]
            /\ UNCHANGED n
    /\ IF change.type = "deleted"
       THEN /\ tombstoned' = [ tombstoned EXCEPT ![change.id] =
                                 [ record_type |-> change.record_type,
                                   deleted_at |-> change.deleted_at ] ]
            /\ everDeleted' = everDeleted \cup
                                 { << change.id, change.record_type >> }
       ELSE UNCHANGED << tombstoned, everDeleted >>
    /\ UNCHANGED << foreign_keys, now, wm, sent, own >>

ApplyRecord(d, change) == ApplyRecordWith(d, change, ApplyOne(db, change))

\* apply_changes: Ok(conflicts); the guard is dropped.
ApplyEnd(d, next) ==
    /\ pc[d] = "apply"
    /\ lock = d
    /\ lock' = NoDevice
    /\ pc' = [ pc EXCEPT ![d] = next ]
    /\ UNCHANGED << db, foreign_keys, now, n, conflicts, wm, last,
                    tombstoned, everDeleted, unseen, sent, own >>

\* get_changes_since: let conn = self.conn.lock().unwrap();
GetChangesBegin(d) ==
    /\ pc[d] = "extract"
    /\ lock = NoDevice
    /\ lock' = d
    /\ pc' = [ pc EXCEPT ![d] = "select" ]
    /\ UNCHANGED << db, foreign_keys, now, n, conflicts, wm, last,
                    tombstoned, everDeleted, unseen, sent, own >>

\* get_changes_since: the four SELECTs have run, Ok(changes); the guard is
\* dropped.
GetChangesEnd(d) ==
    /\ pc[d] = "select"
    /\ lock = d
    /\ lock' = NoDevice
    /\ pc' = [ pc EXCEPT ![d] = "respond" ]
    /\ UNCHANGED << db, foreign_keys, now, n, conflicts, wm, last,
                    tombstoned, everDeleted, unseen, sent, own >>

\* update_device_sync: INSERT OR REPLACE INTO device_sync
update_device_syncMut(s, device_id, timestamp) ==
    [ s EXCEPT !.device_sync =
        @ \cup { [ device_id |-> device_id, last_sync |-> to_rfc3339(timestamp) ] } ]

update_device_sync(s, device_id, timestamp) ==
    [ s EXCEPT !.device_sync =
        { r \in @ : r.device_id # device_id }
          \cup { [ device_id |-> device_id, last_sync |-> to_rfc3339(timestamp) ] } ]

\* Every record the store would send to a device that has never synced.
Stored(s) == Range(get_changes_since(s, None))

-----------------------------------------------------------------------------
(* Spec: the devices call POST /api/v1/sync.  Each call takes the lock three
   times: for apply_changes, for get_changes_since and for
   update_device_sync; calls of other devices run in between. *)

\* sync: state.db.apply_changes(&request.changes)?  The whole call holds the
\* lock; an Err leaves the handler and the device sends its request again.
SyncApplyCall(d) ==
    /\ pc[d] \in { "idle", "failed" }
    /\ lock = NoDevice
    /\ \E batch \in SyncBatches :
          LET r == apply_changes(db, batch)
          IN  /\ db' = r.db
              /\ conflicts' = [ conflicts EXCEPT ![d] = r.conflicts ]
              /\ pc' = [ pc EXCEPT ![d] = IF r.ok THEN "extract" ELSE "failed" ]
    /\ UNCHANGED << foreign_keys, now, lock, n, wm, last, tombstoned,
                    everDeleted, sent >>

\* The call, and the records it committed that the other devices have not
\* been sent.
SyncApply(d) ==
    /\ SyncApplyCall(d)
    /\ unseen' = [ e \in Devices |->
                    ( unseen[e] \cup ( IF e = d THEN {}
                                       ELSE Stored(db') \ Stored(db) ) )
                      \cap Stored(db') ]
    /\ UNCHANGED own

\* sync: state.db.get_changes_since(request.last_sync), under the lock
SyncExtractCall(d) ==
    /\ pc[d] = "extract"
    /\ lock = NoDevice
    /\ pc' = [ pc EXCEPT ![d] = "respond" ]
    /\ UNCHANGED << db, foreign_keys, now, lock, n, conflicts, wm, last,
                    tombstoned, everDeleted, sent, own >>

\* The call, and the records it sends to the device.
SyncExtract(d) ==
    /\ SyncExtractCall(d)
    /\ unseen' = [ unseen EXCEPT ![d] = @ \ Range(get_changes_since(db, wm[d])) ]

\* sync: server_time = Utc::now(), update_device_sync under the lock, and the
\* response; the device keeps server_time as the last_sync of its next
\* request.  Nothing reads device_sync, so reading the clock and writing the
\* row are one step.
SyncRespond(d) ==
    /\ pc[d] = "respond"
    /\ lock = NoDevice
    /\ db' = update_device_sync(db, d, now)
    /\ wm' = [ wm EXCEPT ![d] = now ]
    /\ pc' = [ pc EXCEPT ![d] = "idle" ]
    /\ conflicts' = [ conflicts EXCEPT ![d] = << >> ]
    /\ own' = [ own EXCEPT ![d] = {} ]
    /\ UNCHANGED << foreign_keys, now, lock, n, last, tombstoned, everDeleted,
                    unseen, sent >>

\* The server clock advances.
Tick ==
    /\ now < MaxTime
    /\ now' = now + 1
    /\ UNCHANGED << db, foreign_keys, lock, pc, n, conflicts, wm, last,
                    tombstoned, everDeleted, unseen, sent, own >>

Next ==
    \/ \E d \in Devices : SyncApply(d) \/ SyncExtract(d) \/ SyncRespond(d)
    \/ Tick

Spec == Init /\ [][Next]_vars

\* The store with another device_sync table and the same entity tables.
WithDeviceSync(s, rows) == [ s EXCEPT !.device_sync = rows ]

\* C5 as claimed: a device whose watermark is the server_time of its last
\* response misses no change of another device: every stored record that
\* another device committed and that it was not sent yet is returned by
\* get_changes_since at its watermark.
C5_NoMissedChange ==
    \A d \in Devices :
       \A c \in unseen[d] : c \in Range(get_changes_since(db, wm[d]))

-----------------------------------------------------------------------------
(* SpecDevices: the sync calls of two devices and the device_sync table *)

DevicesApply(d) == SyncApplyCall(d) /\ UNCHANGED << unseen, own >>

DevicesExtract(d) == SyncExtractCall(d) /\ UNCHANGED unseen

NextDevices ==
    \/ \E d \in Devices : DevicesApply(d) \/ DevicesExtract(d) \/ SyncRespond(d)
    \/ Tick

SpecDevices == Init /\ [][NextDevices]_vars

\* C19: the response of a sync call (its outgoing changes and conflicts)
\* is a function of the entity tables and of the request alone: for every
\* batch and every last_sync, the store as it is and the same store with an
\* empty device_sync table give the same result of apply_changes, leave the
\* same entity tables, and give the same output of get_changes_since, so any
\* two stores with the same entity tables answer alike.
C19_WatermarkTableNeverRead ==
    \A batch \in SyncBatches :
       LET r == apply_changes(db, batch)
           blank == apply_changes(WithDeviceSync(db, {}), batch)
       IN  /\ r.ok = blank.ok
           /\ r.conflicts = blank.conflicts
           /\ WithDeviceSync(r.db, {}) = blank.db
           /\ r.ok => \A w \in Watermarks :
                         get_changes_since(r.db, w) = get_changes_since(blank.db, w)

\* C19's case: both devices have a row in device_sync, one of them stamped
\* later than a stored Task, and a request with no last_sync is answered
\* with that Task.
C19_Witness ==
    /\ \A d \in Devices : \E r \in db.device_sync : r.device_id = d
    /\ \E r \in db.device_sync : r.last_sync = to_rfc3339(MaxTime)
    /\ \E c \in Range(get_changes_since(db, None)) :
          c.type = "task" /\ c.task.updated_at < MaxTime

\* The rows of device_sync of device d, and of the other devices.
RowsOf(s, d) == { r \in s.device_sync : r.device_id = d }

RowsOfOthers(s, d) == { r \in s.device_sync : r.device_id # d }

\* This step is the end of a successful sync call of device d: the clock is
\* read as server_time, the row is written and the response is sent.
SyncSucceeds(d) == pc[d] = "respond" /\ pc'[d] = "idle"

-----------------------------------------------------------------------------
(* SpecLww: one caller of Database::apply_changes, List and Task upserts *)

LwwBegin == ApplyBegin("d1")

LwwRecord ==
    /\ \E change \in LwwChanges : ApplyRecord("d1", change)
    /\ UNCHANGED unseen

LwwEnd == ApplyEnd("d1", "idle")

NextLww == LwwBegin \/ LwwRecord \/ LwwEnd

SpecLww == Init /\ [][NextLww]_vars

-----------------------------------------------------------------------------
(* Last writer wins: claims C1, C2 *)

\* This step is one turn of apply_changes' loop for device d; the record it
\* processed is last'.change.
RecordStep(d) == pc[d] = "apply" /\ (n'[d] = n[d] + 1 \/ pc'[d] = "failed")

IsUpsert(change) == change.type \in { "list", "task" }

\* The List or Task a change carries, and the table it is stored in.
Entity(change) == IF change.type = "list" THEN change.list ELSE change.task

TableOf(s, change) == IF change.type = "list" THEN s.lists ELSE s.tasks

IsStored(s, change) == HasRow(TableOf(s, change), Entity(change).id)

StoredRow(s, change) == RowById(TableOf(s, change), Entity(change).id)

StoredUpdatedAt(s, change) == parse_from_rfc3339(StoredRow(s, change).updated_at)

LinksOf(s, task_id) == { k \in s.task_tags : k.task_id = task_id }

\* C1: a List or Task record whose id is stored with an updated_at greater
\* than or equal to the incoming one is rejected: its id is pushed on the
\* conflict list and the store, row and task_tags rows alike, is unchanged.
C1_StaleUpsertRejected ==
    [][ \A d \in Devices :
          ( /\ RecordStep(d)
            /\ IsUpsert(last'.change)
            /\ IsStored(db, last'.change)
            /\ Entity(last'.change).updated_at <= StoredUpdatedAt(db, last'.change) )
          => /\ n'[d] = n[d] + 1
             /\ conflicts'[d] = Append(conflicts[d], Entity(last'.change).id)
             /\ db' = db ]_vars

\* C1 witness: a Task that has links was rejected, and its id is on the list.
C1_Witness ==
    /\ last.out = "conflict"
    /\ last.change.type = "task"
    /\ LinksOf(db, last.change.task.id) # {}
    /\ last.change.task.tag_ids = << >>
    /\ last.change.task.id \in Range(conflicts["d1"])

\* The mutable fields of a stored List or Task, read back as collect_lists
\* and collect_tasks read them, are those of the incoming record.
CarriesList(row, list) ==
    LET got == ListOfRow(row).list
    IN  /\ got.name = list.name
        /\ got.description = list.description
        /\ got.icon = list.icon
        /\ got.color = list.color
        /\ got.sort_order = list.sort_order
        /\ got.updated_at = list.updated_at

CarriesTask(s, row, task) ==
    LET got == TaskOfRow(s, row).task
    IN  /\ got.title = task.title
        /\ got.description = task.description
        /\ got.url = task.url
        /\ got.priority = task.priority
        /\ got.completed = task.completed
        /\ got.list_id = task.list_id
        /\ got.updated_at = task.updated_at
        /\ got.completed_at = task.completed_at
        /\ got.due_date = task.due_date

Carries(s, change) ==
    /\ IsStored(s, change)
    /\ IF change.type = "list"
       THEN CarriesList(StoredRow(s, change), change.list)
       ELSE CarriesTask(s, StoredRow(s, change), change.task)

\* C2: a List or Task record whose id is stored with a strictly smaller
\* updated_at is accepted: unless a statement fails (the error path), nothing
\* is pushed on the conflict list and the stored row then carries every
\* mutable field of the incoming record and its updated_at.
C2_NewerUpsertAccepted ==
    [][ \A d \in Devices :
          ( /\ RecordStep(d)
            /\ IsUpsert(last'.change)
            /\ IsStored(db, last'.change)
            /\ Entity(last'.change).updated_at > StoredUpdatedAt(db, last'.change)
            /\ pc'[d] # "failed" )
          => /\ conflicts'[d] = conflicts[d]
             /\ Carries(db', last'.change) ]_vars

\* C2 witness: a stored Task was overwritten by a record that differs from it
\* in every mutable field.
C2_Witness ==
    /\ last.out = "updated"
    /\ last.change.type = "task"
    /\ last.change.task.title = "b"
    /\ RowById(db.tasks, "t1").created_at = to_rfc3339(0)

-----------------------------------------------------------------------------
(* Order of application: claim C3 *)

\* The List and Task upserts of the last-writer-wins runs.
LwwUpserts == { c \in LwwChanges : IsUpsert(c) }

\* The tags a stored task is linked to.
TagsOf(s, task_id) == { k.tag_id : k \in LinksOf(s, task_id) }

\* The stored state of the change's id is the state the change carries: the
\* mutable fields and, for a Task, the tag links.
StateOf(s, change) ==
    /\ Carries(s, change)
    /\ change.type = "task" => TagsOf(s, change.task.id) = Range(change.task.tag_ids)

\* C3 as claimed: two upserts of one id with distinct updated_at leave the
\* same store in either order, and it is the state of the greater one.
C3_OrderIndependent ==
    \A a, b \in LwwUpserts :
       ( /\ a.type = b.type
         /\ Entity(a).id = Entity(b).id
         /\ Entity(a).updated_at > Entity(b).updated_at )
       => LET ab == ApplyOne(ApplyOne(db, a).db, b).db
              ba == ApplyOne(ApplyOne(db, b).db, a).db
          IN  ab = ba /\ StateOf(ab, a)

-----------------------------------------------------------------------------
(* SpecReplay: a caller that applies a batch whole and sends it again *)

\* The ids of the List and Task records of the batch that upsert_list and
\* upsert_task accepted (returned Ok(None) for), from record i on.
RECURSIVE AcceptedFrom(_, _, _)
AcceptedFrom(s, changes, i) ==
    IF i > Len(changes) THEN {}
    ELSE LET r == ApplyOne(s, changes[i])
         IN  IF ~r.ok THEN {}
             ELSE ( IF IsUpsert(changes[i]) /\ r.conflict = NoId
                    THEN { Entity(changes[i]).id } ELSE {} )
                    \cup AcceptedFrom(r.db, changes, i + 1)

\* Database::apply_changes, the whole call under the lock.
ApplyWhole(d, batch, phase) ==
    /\ pc[d] \in { "idle", "failed" }
    /\ lock = NoDevice
    /\ LET r == apply_changes(db, batch)
       IN  /\ db' = r.db
           /\ conflicts' = [ conflicts EXCEPT ![d] = r.conflicts ]
           /\ pc' = [ pc EXCEPT ![d] = IF r.ok THEN "idle" ELSE "failed" ]
           /\ sent' = CASE phase = "first" ->
                             [ batch |-> batch, phase |-> "first", ok |-> r.ok,
                               accepted |-> AcceptedFrom(db, batch, 1) ]
                        [] phase = "second" -> [ sent EXCEPT !.phase = "second" ]
                        [] OTHER -> sent
    /\ UNCHANGED << foreign_keys, now, lock, n, wm, last,
                    tombstoned, everDeleted, unseen, own >>

\* Calls of one record each build the store the batch is applied to.
ReplaySeed ==
    /\ sent.phase = "none"
    /\ \E change \in ReplayChanges : ApplyWhole("d1", << change >>, "none")

ReplayFirst ==
    /\ sent.phase = "none"
    /\ \E batch \in Batches(ReplayChanges) : ApplyWhole("d1", batch, "first")

ReplaySecond == sent.phase = "first" /\ ApplyWhole("d1", sent.batch, "second")

NextReplay == ReplaySeed \/ ReplayFirst \/ ReplaySecond

SpecReplay == Init /\ [][NextReplay]_vars

\* This step is the second application of the batch, and neither application
\* ended in an error.
Resent ==
    /\ sent.phase = "first"
    /\ sent'.phase = "second"
    /\ sent.ok
    /\ pc'["d1"] # "failed"

OnlyUpserts(batch) == \A i \in 1 .. Len(batch) : IsUpsert(batch[i])

-----------------------------------------------------------------------------
(* SpecTagSet: one caller of Database::apply_changes, a Task and its tags *)

TagSetBegin == ApplyBegin("d1")

TagSetRecord ==
    /\ \E change \in TagSetChanges : ApplyRecord("d1", change)
    /\ UNCHANGED unseen

TagSetEnd == ApplyEnd("d1", "idle")

NextTagSet == TagSetBegin \/ TagSetRecord \/ TagSetEnd

SpecTagSet == Init /\ [][NextTagSet]_vars

-----------------------------------------------------------------------------
(* Tag-set replace: claims C8, C9 *)

\* The step processed a Task record and upsert_task returned Ok(None): the
\* record was neither rejected as a conflict nor stopped by a failed statement.
TaskAccepted(d) ==
    /\ RecordStep(d)
    /\ last'.change.type = "task"
    /\ pc'[d] # "failed"
    /\ conflicts'[d] = conflicts[d]

\* C8 as claimed: every Task record with an empty tag_ids that apply_changes
\* processes without error leaves no TaskTagLink row for its task id.
C8_EmptyTagsAlwaysClear ==
    [][ \A d \in Devices :
          ( /\ RecordStep(d)
            /\ last'.change.type = "task"
            /\ last'.change.task.tag_ids = << >>
            /\ pc'[d] # "failed" )
          => LinksOf(db', last'.change.task.id) = {} ]_vars

\* C8 as amended: a Task record with an empty tag_ids that is not rejected as
\* a conflict leaves no TaskTagLink row for its task id.
C8_EmptyTagsClearWhenAccepted ==
    [][ \A d \in Devices :
          ( TaskAccepted(d) /\ last'.change.task.tag_ids = << >> )
          => LinksOf(db', last'.change.task.id) = {} ]_vars

\* C8 witness: a stored Task linked to two tags was overwritten by a record
\* with no tag ids.
C8_Witness ==
    /\ last.out = "updated"
    /\ last.change.type = "task"
    /\ last.change.task.tag_ids = << >>
    /\ last.old_tags = { "g1", "g2" }
    /\ LinksOf(db, "t1") = {}

\* C9: after a Task upsert that is not rejected, the task_tags rows of the
\* task are one row per distinct tag id of the incoming record, and no other.
C9_TagSetReplaced ==
    [][ \A d \in Devices :
          TaskAccepted(d)
          => LET links == LinksOf(db', last'.change.task.id)
                 ids == Range(last'.change.task.tag_ids)
             IN  /\ { k.tag_id : k \in links } = ids
                 /\ Cardinality(links) = Cardinality(ids) ]_vars

\* C9 witness: a Task linked to g1 and g2 was overwritten by a record whose
\* tag_ids names g1 twice, and is now linked to g1 alone.
C9_Witness ==
    /\ last.out = "updated"
    /\ last.change.type = "task"
    /\ last.change.task.tag_ids = << "g1", "g1" >>
    /\ last.old_tags = { "g1", "g2" }
    /\ { k.tag_id : k \in LinksOf(db, "t1") } = { "g1" }

-----------------------------------------------------------------------------
(* SpecTomb: one caller of Database::apply_changes, upserts and Deletions *)

TombBegin == ApplyBegin("d1")

TombRecord ==
    /\ \E change \in TombChanges : ApplyRecord("d1", change)
    /\ UNCHANGED unseen

TombEnd == ApplyEnd("d1", "idle")

NextTomb == TombBegin \/ TombRecord \/ TombEnd

SpecTomb == Init /\ [][NextTomb]_vars

\* The Deleted records get_changes_since(since) returns for an id.
DeletedSince(s, since, id) ==
    { c \in Range(get_changes_since(s, since)) : c.type = "deleted" /\ c.id = id }

\* C6: once a Deletion of an id stamped t was applied, and until the next
\* Deletion of that id, get_changes_since(w) holds the Deleted record of it
\* for every w < t and no Deleted record of the id for every w > t.
C6_TombstonePropagation ==
    \A id \in DeletionIds :
       tombstoned[id].record_type # "none"
       => \A w \in Times :
             /\ w < tombstoned[id].deleted_at
                  => Deletion(id, tombstoned[id].record_type,
                              tombstoned[id].deleted_at)
                        \in DeletedSince(db, w, id)
             /\ w > tombstoned[id].deleted_at => DeletedSince(db, w, id) = {}

\* C6 witness: a Task was deleted at time 1; watermarks 0 and 2 exist on
\* either side of it.
C6_Witness ==
    /\ last.change = Deletion("t1", "Task", 1)
    /\ tombstoned["t1"] = [ record_type |-> "Task", deleted_at |-> 1 ]
    /\ ~HasRow(db.tasks, "t1")
    /\ DeletedSince(db, 0, "t1") # {}
    /\ DeletedSince(db, 2, "t1") = {}

\* The stored List with this id is the inbox.
IsInbox(s, id) == \E r \in s.lists : r.id = id /\ r.is_inbox # 0

\* C7: a List Deletion for the id of the stored inbox leaves the row, which
\* a full get_changes_since still returns, and writes the tombstone, which
\* get_changes_since returns for every watermark before deleted_at.
C7_InboxSurvivesDeletion ==
    [][ \A d \in Devices :
          ( /\ RecordStep(d)
            /\ last'.change.type = "deleted"
            /\ last'.change.record_type = "List"
            /\ IsInbox(db, last'.change.id) )
          => /\ pc'[d] # "failed"
             /\ db'.lists = db.lists
             /\ ListOfRow(RowById(db.lists, last'.change.id))
                   \in Range(get_changes_since(db', None))
             /\ \A w \in Times :
                   w < last'.change.deleted_at
                   => last'.change \in DeletedSince(db', w, last'.change.id) ]_vars

\* C7 witness: the inbox was deleted at time 2, is still stored, and has a
\* tombstone.
C7_Witness ==
    /\ last.change = Deletion("l1", "List", 2)
    /\ last.out = "applied"
    /\ IsInbox(db, "l1")
    /\ HasRow(db.tombstones, "l1")

\* C10 as claimed: get_changes_since(None) returns every stored List, Tag and
\* Task, and a Deleted record for every (id, record_type) a Deletion was ever
\* applied for.
C10_FullResync ==
    LET all == Range(get_changes_since(db, None))
    IN  /\ \A r \in db.lists : ListOfRow(r) \in all
        /\ \A r \in db.tags : TagOfRow(r) \in all
        /\ \A r \in db.tasks : TaskOfRow(db, r) \in all
        /\ \A k \in everDeleted :
              \E c \in all : /\ c.type = "deleted"
                             /\ c.id = k[1]
                             /\ c.record_type = k[2]

-----------------------------------------------------------------------------
(* Order of the batch: claim C11 *)

\* The records of a batch of one kind, in batch order.
OfKind(batch, type) == SelectSeq(batch, LAMBDA c : c.type = type)

\* The batch partitioned by kind: List, Tag, TaskTagLink, Task, Deletion.
SortByKind(batch) ==
    OfKind(batch, "list") \o OfKind(batch, "tag") \o OfKind(batch, "task_tag")
      \o OfKind(batch, "task") \o OfKind(batch, "deleted")

\* This step is the first application of a batch.
FirstSent == sent.phase = "none" /\ sent'.phase = "first"

\* C11 as claimed: apply_changes leaves the store, and returns the conflict
\* set, that the batch sorted by kind (List, Tag, TaskTagLink, Task, Deletion)
\* gives, whatever the positions of the records in the batch.
C11_AppliedInKindOrder ==
    [][ FirstSent
          => LET sorted == apply_changes(db, SortByKind(sent'.batch))
             IN  /\ db' = sorted.db
                 /\ (pc'["d1"] # "failed") = sorted.ok
                 /\ Range(conflicts'["d1"]) = Range(sorted.conflicts) ]_vars

-----------------------------------------------------------------------------
(* SpecKinds: one caller of Database::apply_changes, Tags and TaskTagLinks *)

KindBegin == ApplyBegin("d1")

KindRecord ==
    /\ \E change \in KindChanges : ApplyRecord("d1", change)
    /\ UNCHANGED unseen

KindEnd == ApplyEnd("d1", "idle")

NextKinds == KindBegin \/ KindRecord \/ KindEnd

SpecKinds == Init /\ [][NextKinds]_vars

\* The Tag record a stored row reads back as (collect_tags).
StoredTag(s, id) == TagOfRow(RowById(s.tags, id)).tag

\* C12: a Tag record is written whatever the stored Tag's stamps are: after
\* it the tags table holds one row with its id, which reads back as the
\* incoming Tag, the step does not fail, and nothing is pushed on the
\* conflict list, so that no Tag id is ever on it.
C12_TagReplacedUnconditionally ==
    [][ \A d \in Devices :
          ( RecordStep(d) /\ last'.change.type = "tag" )
          => /\ pc'[d] # "failed"
             /\ conflicts'[d] = conflicts[d]
             /\ Cardinality(RowsById(db'.tags, last'.change.tag.id)) = 1
             /\ StoredTag(db', last'.change.tag.id) = last'.change.tag
             /\ { r \in db'.tags : r.id # last'.change.tag.id }
                  = { r \in db.tags : r.id # last'.change.tag.id }
             /\ "g1" \notin Range(conflicts'[d]) ]_vars

\* C12 witness: the stored Tag, created at 1, was replaced by a Tag record of
\* another name and colour created at 0.
C12_Witness ==
    /\ last.change = TagChange(ATag("g1", 2, 0))
    /\ last.out = "replaced"
    /\ tombstoned["g1"].record_type = "none"
    /\ db.tags = { [ id |-> "g1", name |-> "b", color |-> "c2",
                     created_at |-> to_rfc3339(0) ] }
    /\ db.task_tags # {}

\* The task_tags rows of a (task_id, tag_id) pair.
PairRows(s, link) ==
    { r \in s.task_tags : r.task_id = link.task_id /\ r.tag_id = link.tag_id }

\* C13: a TaskTagLink record whose pair is stored leaves the store as it is,
\* the created_at of the stored row included; one whose pair is not stored
\* adds, unless the statement fails, the one row of the pair with the
\* incoming created_at and changes nothing else; in neither case is anything
\* pushed on the conflict list.
C13_LinkInsertedIfAbsent ==
    [][ \A d \in Devices :
          ( RecordStep(d) /\ last'.change.type = "task_tag" )
          => LET link == last'.change.link
             IN  /\ conflicts'[d] = conflicts[d] \/ pc'[d] = "failed"
                 /\ PairRows(db, link) # {}
                      => db' = db /\ pc'[d] # "failed"
                 /\ ( PairRows(db, link) = {} /\ pc'[d] # "failed" )
                      => db' = [ db EXCEPT !.task_tags = @ \cup
                                   { [ task_id |-> link.task_id,
                                       tag_id |-> link.tag_id,
                                       created_at |-> to_rfc3339(link.created_at) ] } ]
                 /\ pc'[d] = "failed" => db' = db ]_vars

\* C13 witness: the pair is stored with created_at 0 and a TaskTagLink record
\* of the pair with created_at 1 was ignored.
C13_Witness ==
    /\ last.change = LinkChange("t1", "g1", 1)
    /\ last.out = "ignored"
    /\ db.task_tags = { [ task_id |-> "t1", tag_id |-> "g1",
                          created_at |-> to_rfc3339(0) ] }

-----------------------------------------------------------------------------
(* Tombstone identity: claim C14 *)

\* C14 as claimed: a Deletion writes or replaces only the tombstone of its
\* id and its record_type, stamped with its deleted_at; tombstones of the
\* same id and another record_type stay.
C14_TombstoneKeyedByIdAndType ==
    [][ \A d \in Devices :
          ( RecordStep(d) /\ last'.change.type = "deleted" )
          => LET del == last'.change
                 type_str == RecordTypeToDb(del.record_type)
             IN  db'.tombstones =
                   { r \in db.tombstones :
                       ~(r.id = del.id /\ r.record_type = type_str) }
                     \cup { [ id |-> del.id, record_type |-> type_str,
                              deleted_at |-> to_rfc3339(del.deleted_at) ] } ]_vars

-----------------------------------------------------------------------------
(* SpecRemoval: one caller of Database::apply_changes, rows of every kind and
   Deletions of every record_type *)

RemovalBegin == ApplyBegin("d1")

RemovalRecord ==
    /\ \E change \in RemovalChanges : ApplyRecord("d1", change)
    /\ UNCHANGED unseen

RemovalEnd == ApplyEnd("d1", "idle")

NextRemoval == RemovalBegin \/ RemovalRecord \/ RemovalEnd

SpecRemoval == Init /\ [][NextRemoval]_vars

\* The rows of each entity table a Deletion of (id, record_type) is to
\* remove: the row of that kind with that id, the inbox excepted, or the
\* links of the task.
NamedRows(s, id, record_type) ==
    [ lists |-> IF record_type = "List"
                THEN { r \in s.lists : r.id = id /\ r.is_inbox = 0 } ELSE {},
      tags |-> IF record_type = "Tag" THEN RowsById(s.tags, id) ELSE {},
      tasks |-> IF record_type = "Task" THEN RowsById(s.tasks, id) ELSE {},
      task_tags |-> IF record_type = "TaskTag"
                    THEN { r \in s.task_tags : r.task_id = id } ELSE {} ]

\* The TaskTagLink rows ON DELETE CASCADE removes with a Task or a Tag, in a
\* build that enforces foreign keys.
CascadedLinks(s, id, record_type) ==
    IF ~foreign_keys THEN {}
    ELSE CASE record_type = "Task" -> { r \in s.task_tags : r.task_id = id }
           [] record_type = "Tag" -> { r \in s.task_tags : r.tag_id = id }
           [] OTHER -> {}

\* This step processed a Deletion and apply_delete returned Ok.
Deleted(d) ==
    /\ RecordStep(d)
    /\ last'.change.type = "deleted"
    /\ pc'[d] # "failed"

-----------------------------------------------------------------------------
(* SpecExtract: one caller of Database::apply_changes; get_changes_since is
   read in every state, at every watermark *)

ExtractBegin == ApplyBegin("d1")

ExtractRecord ==
    /\ \E change \in ExtractChanges : ApplyRecord("d1", change)
    /\ UNCHANGED unseen

ExtractEnd == ApplyEnd("d1", "idle")

NextExtract == ExtractBegin \/ ExtractRecord \/ ExtractEnd

SpecExtract == Init /\ [][NextExtract]_vars

\* The records of the rows stamped, as instants, strictly after w.
StampedAfter(s, w) ==
    { ListOfRow(r) : r \in { x \in s.lists : parse_from_rfc3339(x.updated_at) > w } }
      \cup { TagOfRow(r) : r \in { x \in s.tags : parse_from_rfc3339(x.created_at) > w } }
      \cup { TaskOfRow(s, r) : r \in { x \in s.tasks : parse_from_rfc3339(x.updated_at) > w } }
      \cup { DeletedOfRow(r) : r \in
               { x \in s.tombstones : parse_from_rfc3339(x.deleted_at) > w } }

\* C16: get_changes_since(w) returns, once each, exactly the Lists and Tasks
\* with updated_at > w, the Tags with created_at > w and the tombstones with
\* deleted_at > w, a row stamped exactly w excluded; with no watermark it
\* returns every row of the four tables.
C16_ExactlyTheRowsAfterWatermark ==
    /\ \A w \in Times :
          LET out == get_changes_since(db, w)
          IN  /\ Range(out) = StampedAfter(db, w)
              /\ Len(out) = Cardinality(StampedAfter(db, w))
    /\ LET all == get_changes_since(db, None)
       IN  /\ Range(all) = StampedAfter(db, None)
           /\ Len(all) = Cardinality(db.lists) + Cardinality(db.tags)
                           + Cardinality(db.tasks) + Cardinality(db.tombstones)

\* C16 witness: a List, a Tag, a Task and a tombstone are stored, all stamped
\* 1: the watermark 0 returns the four, the watermark 1 none of them.
C16_Witness ==
    /\ \E r \in db.lists : r.updated_at = to_rfc3339(1)
    /\ \E r \in db.tags : r.created_at = to_rfc3339(1)
    /\ \E r \in db.tasks : r.updated_at = to_rfc3339(1)
    /\ \E r \in db.tombstones : r.deleted_at = to_rfc3339(1)
    /\ Len(get_changes_since(db, 0)) = 4
    /\ get_changes_since(db, 1) = << >>
    /\ Len(get_changes_since(db, None)) = 4

\* The place of a kind in the output: List, Tag, Task, Deleted.
KindRank(type) ==
    CASE type = "list" -> 1
      [] type = "tag" -> 2
      [] type = "task" -> 3
      [] type = "deleted" -> 4

\* C17: in the sequence get_changes_since returns, at every watermark and
\* with none, every List precedes every Tag, every Tag every Task, and every
\* Task every Deleted record.
C17_OutputOrderedByKind ==
    \A w \in Watermarks :
       LET out == get_changes_since(db, w)
       IN  \A i, j \in 1 .. Len(out) :
              i < j => KindRank(out[i].type) <= KindRank(out[j].type)

\* C17 witness: the full output holds a record of each kind, in the order
\* List, Tag, Task, Deleted.
C17_Witness ==
    LET out == get_changes_since(db, None)
    IN  /\ Len(out) = 4
        /\ << out[1].type, out[2].type, out[3].type, out[4].type >>
             = << "list", "tag", "task", "deleted" >>

-----------------------------------------------------------------------------
(* Derived tag ids: claim C18 *)

\* The Task records get_changes_since(since) returns.
TasksSince(s, since) ==
    { c \in Range(get_changes_since(s, since)) : c.type = "task" }

\* C18: at every watermark and with none, the tag_ids of every Task record
\* returned names, once each, exactly the tags of the task_tags rows stored
\* for the task, however the rows came to be or to go.
C18_TagIdsAreTheStoredLinks ==
    \A w \in Watermarks :
       \A c \in TasksSince(db, w) :
          /\ Range(c.task.tag_ids) = TagsOf(db, c.task.id)
          /\ Len(c.task.tag_ids) = Cardinality(TagsOf(db, c.task.id))

\* C18 witness: the Task was sent with no tag ids, a TaskTagLink record then
\* linked it to g1, and the Task is returned with tag_ids = [g1].
C18_Witness ==
    /\ last.change = LinkChange("t1", "g1", 0)
    /\ last.out = "inserted"
    /\ \E c \in TasksSince(db, None) : c.task.id = "t1" /\ c.task.tag_ids = << "g1" >>

-----------------------------------------------------------------------------
(* SpecLock: two devices call POST /api/v1/sync at once; apply_changes and
   get_changes_since are followed statement by statement *)

LockApplyBegin(d) == ApplyBegin(d)

LockApplyRecord(d) ==
    /\ \E change \in LockChanges : ApplyRecord(d, change)
    /\ UNCHANGED unseen

LockApplyEnd(d) == ApplyEnd(d, "extract")

LockGetChangesBegin(d) == GetChangesBegin(d)

LockGetChangesEnd(d) == GetChangesEnd(d)

NextLock ==
    \E d \in Devices :
       \/ LockApplyBegin(d) \/ LockApplyRecord(d) \/ LockApplyEnd(d)
       \/ LockGetChangesBegin(d) \/ LockGetChangesEnd(d)
       \/ SyncRespond(d)

SpecLock == Init /\ [][NextLock]_vars

\* Device d is inside apply_changes or get_changes_since.
InOperation(d) == pc[d] \in { "apply", "select" }

\* C21: at most one device is inside apply_changes or get_changes_since; the
\* device inside holds the lock from the first statement of the operation to
\* its last; and while it does, no step belongs to another device or changes
\* the store otherwise than by that operation.
C21_OneOperationAtATime ==
    [][ /\ \A d, e \in Devices : ( InOperation(d)' /\ InOperation(e)' ) => d = e
        /\ \A d \in Devices : InOperation(d)' <=> lock' = d
        /\ \A d \in Devices :
              InOperation(d) =>
                 /\ lock = d
                 /\ \A e \in Devices \ { d } :
                       /\ pc'[e] = pc[e]
                       /\ n'[e] = n[e]
                       /\ conflicts'[e] = conflicts[e]
                 /\ db' # db => ( pc[d] = "apply" /\ RecordStep(d) ) ]_vars

\* C21's case: d1 is between two records of its batch, having written the
\* first, while d2 has finished apply_changes and waits for the lock to run
\* get_changes_since.
C21_Witness ==
    /\ pc["d1"] = "apply"
    /\ n["d1"] = 1
    /\ lock = "d1"
    /\ db.tasks # {}
    /\ pc["d2"] = "extract"

-----------------------------------------------------------------------------
(* Two devices, one id: claim C22 *)

\* The row a List or Task record holds when all its columns are stored.
RowOfChange(change) ==
    IF change.type = "list" THEN ListRow(change.list) ELSE TaskRow(change.task)

\* d1 sends a and d2 sends b, two upserts of one id that is not stored; the
\* lock puts the two apply_changes calls one after the other, a's first.
Raced(s, a, b) ==
    /\ a.type = b.type
    /\ Entity(a).id = Entity(b).id
    /\ ~IsStored(s, a)
    /\ ApplyOne(s, a).ok
    /\ ApplyOne(ApplyOne(s, a).db, b).ok

\* Of two records, those with the greatest updated_at.
Greatest(a, b) ==
    { c \in { a, b } : \A o \in { a, b } : Entity(o).updated_at <= Entity(c).updated_at }

\* C22 as claimed: whichever of two devices' upserts of one id is applied
\* first, the stored row ends as the version with the greatest updated_at of
\* the two, and the second is either reported as a conflict or strictly
\* newer than the first, which it overwrites.
C22_NoLostUpdate ==
    \A a, b \in LwwUpserts :
       Raced(db, a, b) =>
          LET first == ApplyOne(db, a)
              second == ApplyOne(first.db, b)
          IN  /\ StoredRow(second.db, a) \in { RowOfChange(c) : c \in Greatest(a, b) }
              /\ \/ second.conflict = Entity(b).id
                 \/ Entity(b).updated_at > Entity(a).updated_at

-----------------------------------------------------------------------------
(* SpecOwn: the sync calls of two devices, and what each call committed *)

\* The call, and the records it committed: what the store sends since the
\* call that it did not send before.
OwnApply(d) ==
    /\ SyncApplyCall(d)
    /\ own' = [ own EXCEPT ![d] = IF pc'[d] = "extract"
                                  THEN Stored(db') \ Stored(db) ELSE {} ]
    /\ UNCHANGED unseen

OwnExtract(d) == SyncExtractCall(d) /\ UNCHANGED unseen

NextOwn ==
    \/ \E d \in Devices : OwnApply(d) \/ OwnExtract(d) \/ SyncRespond(d)
    \/ Tick

SpecOwn == Init /\ [][NextOwn]_vars

\* The timestamp get_changes_since selects a record by.
Stamp(c) ==
    CASE c.type = "list" -> c.list.updated_at
      [] c.type = "tag" -> c.tag.created_at
      [] c.type = "task" -> c.task.updated_at
      [] c.type = "deleted" -> c.deleted_at

\* This step is the get_changes_since of device d's sync call.
ExtractStep(d) == pc[d] = "extract" /\ pc'[d] = "respond"

-----------------------------------------------------------------------------
(* A failed statement: claim C24 *)

\* The store after the first k records of a batch, applied one by one.
RECURSIVE AfterRecords(_, _, _)
AfterRecords(s, changes, k) ==
    IF k = 0 THEN s
    ELSE ApplyOne(AfterRecords(s, changes, k - 1), changes[k]).db

\* Record k is the first of the batch on which a statement fails.
FirstFailure(s, changes, k) ==
    /\ \A j \in 1 .. k - 1 : ApplyOne(AfterRecords(s, changes, j - 1), changes[j]).ok
    /\ ~ApplyOne(AfterRecords(s, changes, k - 1), changes[k]).ok

\* C24: when a statement fails on record k of a batch, the call ends in an
\* error and returns no conflict list, and the store is as the failing
\* statement of record k left it: no record after k is applied.
C24_ErrorStopsTheBatch ==
    [][ FirstSent =>
           \A k \in 1 .. Len(sent'.batch) :
              FirstFailure(db, sent'.batch, k) =>
                 /\ pc'["d1"] = "failed"
                 /\ ~sent'.ok
                 /\ conflicts'["d1"] = << >>
                 /\ db' = AfterRecords(db, sent'.batch, k) ]_vars

\* C24's case: the first of two records failed (a Task whose List is not
\* stored, in a build that enforces foreign keys), the second is that List,
\* and the List is not stored.
C24_Witness ==
    /\ sent.phase = "first"
    /\ ~sent.ok
    /\ pc["d1"] = "failed"
    /\ Len(sent.batch) = 2
    /\ sent.batch[1].type = "task"
    /\ sent.batch[2].type = "list"
    /\ db.lists = {}

-----------------------------------------------------------------------------
(* SpecFault: one caller of Database::apply_changes over a storage that can
   fail *)

FaultBegin == ApplyBegin("d1")

FaultRecord ==
    /\ \E change \in FaultChanges :
          \E fault \in StorageFaults :
             ApplyRecordWith("d1", change, ApplyOneFaulty(db, change, fault))
    /\ UNCHANGED unseen

FaultEnd == ApplyEnd("d1", "idle")

NextFault == FaultBegin \/ FaultRecord \/ FaultEnd

SpecFault == Init /\ [][NextFault]_vars

\* C25 as claimed: when the SELECT of the stored updated_at fails, the upsert
\* of a List or Task ends in an error and the store is as it was: the record
\* is neither inserted nor updated.
C25_LookupFailureIsFatal ==
    \A change \in FaultChanges :
       LET r == ApplyOneFaulty(db, change, "lookup")
       IN  ~r.ok /\ r.db = db

-----------------------------------------------------------------------------
(* Rows come by upserts and go by Deletions: claim C26 *)

Ids(table) == { r.id : r \in table }

Pairs(s) == { << r.task_id, r.tag_id >> : r \in s.task_tags }

\* The record is a Deletion of (id, record_type), and the store s holds the
\* tombstone of that id and type.
TombstonedBy(s, change, id, record_type) ==
    /\ change.type = "deleted"
    /\ change.id = id
    /\ change.record_type = record_type
    /\ \E t \in s.tombstones :
          t.id = id /\ t.record_type = RecordTypeToDb(record_type)

\* Every row the step adds is the row of the upsert the step processed.
PutByUpsert ==
    /\ \A id \in Ids(db'.lists) \ Ids(db.lists) :
          last'.change.type = "list" /\ last'.change.list.id = id
    /\ \A id \in Ids(db'.tags) \ Ids(db.tags) :
          last'.change.type = "tag" /\ last'.change.tag.id = id
    /\ \A id \in Ids(db'.tasks) \ Ids(db.tasks) :
          last'.change.type = "task" /\ last'.change.task.id = id
    /\ \A p \in Pairs(db') \ Pairs(db) :
          \/ /\ last'.change.type = "task_tag"
             /\ last'.change.link.task_id = p[1]
             /\ last'.change.link.tag_id = p[2]
          \/ /\ last'.change.type = "task"
             /\ last'.change.task.id = p[1]
             /\ p[2] \in Range(last'.change.task.tag_ids)

\* Every List, Tag or Task row the step removes is named by the Deletion the
\* step processed, which left its tombstone.
RowsGoByDeletion ==
    /\ \A id \in Ids(db.lists) \ Ids(db'.lists) :
          TombstonedBy(db', last'.change, id, "List")
    /\ \A id \in Ids(db.tags) \ Ids(db'.tags) :
          TombstonedBy(db', last'.change, id, "Tag")
    /\ \A id \in Ids(db.tasks) \ Ids(db'.tasks) :
          TombstonedBy(db', last'.change, id, "Task")

\* C26 as claimed: a step removes a List, Tag, Task or TaskTagLink row only
\* by a Deletion of its id and type that leaves the tombstone, and adds a row
\* only by an upsert.
C26_NoRemovalWithoutTombstone ==
    [][ /\ RowsGoByDeletion
        /\ \A p \in Pairs(db) \ Pairs(db') :
              TombstonedBy(db', last'.change, p[1], "TaskTag")
        /\ PutByUpsert ]_vars

\* C26 as amended: a TaskTagLink row also goes, with no tombstone of its own,
\* when a Task record of its task is written (the tag-set replace), and in a
\* build that enforces foreign keys when its Task or its Tag is deleted or
\* its Tag is replaced.
C26_LinksAlsoGoWithTheirTask ==
    [][ /\ RowsGoByDeletion
        /\ \A p \in Pairs(db) \ Pairs(db') :
              \/ TombstonedBy(db', last'.change, p[1], "TaskTag")
              \/ /\ last'.change.type = "task"
                 /\ last'.change.task.id = p[1]
                 /\ last'.out # "conflict"
              \/ /\ foreign_keys
                 /\ \/ TombstonedBy(db', last'.change, p[1], "Task")
                    \/ TombstonedBy(db', last'.change, p[2], "Tag")
                    \/ last'.change.type = "tag" /\ last'.change.tag.id = p[2]
        /\ PutByUpsert ]_vars

\* C26's case: a Task record has removed the link of its task, which holds
\* no tag now, while the only tombstone is that of a List a Deletion removed.
C26_Witness ==
    /\ last.change.type = "task"
    /\ last.out = "inserted"
    /\ last.old_tags = { "g1" }
    /\ db.task_tags = {}
    /\ db.lists = {}
    /\ \A t \in db.tombstones : t.id = "l1" /\ t.record_type = "list"
    /\ db.tombstones # {}

-----------------------------------------------------------------------------
(* A conflict is not a failure: claim C27 *)

\* upsert_task / upsert_list return Ok(Some(id)) for record k of the batch.
RejectedAt(s, changes, k) ==
    ApplyOne(AfterRecords(s, changes, k - 1), changes[k]).conflict # NoId

\* No statement fails on any record of the batch.
NoFailure(s, changes) ==
    \A k \in 1 .. Len(changes) :
       ApplyOne(AfterRecords(s, changes, k - 1), changes[k]).ok

\* The ids of the rejected records among the first k, in batch order.
RECURSIVE ConflictsUpTo(_, _, _)
ConflictsUpTo(s, changes, k) ==
    IF k = 0 THEN << >>
    ELSE LET r == ApplyOne(AfterRecords(s, changes, k - 1), changes[k])
         IN  IF r.conflict # NoId
             THEN Append(ConflictsUpTo(s, changes, k - 1), r.conflict)
             ELSE ConflictsUpTo(s, changes, k - 1)

\* C27: when a record of the batch is rejected and no statement fails, the
\* call returns Ok with the ids of the rejected records, and the store is
\* the one every record of the batch, those after the rejected one included,
\* leaves when applied in turn.
C27_ConflictDoesNotStopTheMerge ==
    [][ ( /\ FirstSent
          /\ NoFailure(db, sent'.batch)
          /\ \E k \in 1 .. Len(sent'.batch) : RejectedAt(db, sent'.batch, k) )
        => /\ pc'["d1"] = "idle"
           /\ sent'.ok
           /\ conflicts'["d1"]
                = ConflictsUpTo(db, sent'.batch, Len(sent'.batch))
           /\ db' = AfterRecords(db, sent'.batch, Len(sent'.batch)) ]_vars

\* C27's case: the first record of a batch, a List, was rejected, and the
\* second, a Task that was not stored, was inserted.
C27_Witness ==
    /\ sent.phase = "first"
    /\ sent.ok
    /\ Len(sent.batch) = 2
    /\ sent.batch[1].type = "list"
    /\ sent.batch[2].type = "task"
    /\ conflicts["d1"] = << "l1" >>
    /\ sent.accepted = { "t1" }
    /\ HasRow(db.tasks, "t1")

-----------------------------------------------------------------------------
(* References inside one batch: claim C28 *)

\* The Task row of the id, if stored, names a stored List, and every
\* TaskTagLink row of the task names a stored Tag.
Referenced(s, task_id) ==
    /\ \A t \in RowsById(s.tasks, task_id) : HasRow(s.lists, t.list_id)
    /\ \A k \in LinksOf(s, task_id) : HasRow(s.tags, k.tag_id)

\* Record i of the batch is a Task that is not stored, and the batch holds
\* the List it references and the Tags it carries.
BringsItsReferences(s, changes, i) ==
    /\ changes[i].type = "task"
    /\ ~HasRow(s.tasks, changes[i].task.id)
    /\ LinksOf(s, changes[i].task.id) = {}
    /\ \E j \in 1 .. Len(changes) :
          /\ changes[j].type = "list"
          /\ changes[j].list.id = changes[i].task.list_id
    /\ \A g \in Range(changes[i].task.tag_ids) :
          \E j \in 1 .. Len(changes) :
             changes[j].type = "tag" /\ changes[j].tag.id = g

\* C28 as claimed: when a batch holds a new Task with its List and its Tags,
\* in any positions, the store after each record of the call, up to its end
\* or its first failed statement, has the Task's list and its links' tags.
C28_NoTransientDanglingReference ==
    [][ FirstSent =>
           \A i \in 1 .. Len(sent'.batch) :
              BringsItsReferences(db, sent'.batch, i) =>
                 \A k \in 1 .. Len(sent'.batch) :
                    ( \A j \in 1 .. k - 1 :
                         ApplyOne(AfterRecords(db, sent'.batch, j - 1),
                                  sent'.batch[j]).ok )
                    => Referenced(AfterRecords(db, sent'.batch, k),
                                  sent'.batch[i].task.id) ]_vars

-----------------------------------------------------------------------------
(* SpecInbox: one caller of Database::apply_changes, Lists and Tasks that are
   written, deleted and written again *)

InboxBegin == ApplyBegin("d1")

InboxRecord ==
    /\ \E change \in InboxChanges : ApplyRecord("d1", change)
    /\ UNCHANGED unseen

InboxEnd == ApplyEnd("d1", "idle")

NextInbox == InboxBegin \/ InboxRecord \/ InboxEnd

SpecInbox == Init /\ [][NextInbox]_vars

\* C29: a stored List row whose is_inbox is set is stored after every step,
\* with is_inbox set and the same created_at: no List record changes the two
\* columns of a stored row and no Deletion removes the row.
C29_InboxStaysInbox ==
    [][ \A r \in db.lists :
          r.is_inbox # 0 =>
             \E q \in db'.lists :
                /\ q.id = r.id
                /\ q.is_inbox = r.is_inbox
                /\ q.created_at = r.created_at ]_vars

\* C29's case: the inbox is stored with the name and the updated_at of a
\* later List record of its id that is not an inbox and was accepted, and a
\* Deletion of the List has left its tombstone.
C29_Witness ==
    /\ last.change.type = "list"
    /\ last.out = "updated"
    /\ ~last.change.list.is_inbox
    /\ IsInbox(db, "l1")
    /\ RowById(db.lists, "l1").name = last.change.list.name
    /\ \E t \in db.tombstones : t.id = "l1" /\ t.record_type = "list"

\* C30: a List or Task record whose id is not stored and has a tombstone is
\* inserted with all its columns whatever its updated_at: unless a statement
\* fails, nothing is pushed on the conflict list, and the tombstones are as
\* they were.
C30_UpsertIgnoresTombstones ==
    [][ \A d \in Devices :
          ( /\ RecordStep(d)
            /\ IsUpsert(last'.change)
            /\ ~IsStored(db, last'.change)
            /\ HasRow(db.tombstones, Entity(last'.change).id)
            /\ pc'[d] # "failed" )
          => /\ conflicts'[d] = conflicts[d]
             /\ n'[d] = n[d] + 1
             /\ IsStored(db', last'.change)
             /\ StoredRow(db', last'.change) = RowOfChange(last'.change)
             /\ db'.tombstones = db.tombstones ]_vars

\* C30's case: the Task was deleted at the latest time, its row removed, and
\* a Task record of the id with updated_at 0 was then inserted: the row and
\* the tombstone are both stored.
C30_Witness ==
    /\ last.change.type = "task"
    /\ last.change.task.updated_at = 0
    /\ last.out = "inserted"
    /\ tombstoned["t1"] = [ record_type |-> "Task", deleted_at |-> MaxTime ]
    /\ HasRow(db.tasks, "t1")
    /\ \E t \in db.tombstones :
          t.id = "t1" /\ t.record_type = "task" /\ t.deleted_at = to_rfc3339(MaxTime)
    /\ conflicts["d1"] = << >>

-----------------------------------------------------------------------------
(* SpecDelete: a caller that applies batches in which Deletions arrive after
   newer rows and newer tombstones *)

DeleteSeed ==
    /\ sent.phase = "none"
    /\ \E change \in DeleteChanges : ApplyWhole("d1", << change >>, "none")

DeleteFirst ==
    /\ sent.phase = "none"
    /\ \E batch \in DeleteBatches : ApplyWhole("d1", batch, "first")

NextDelete == DeleteSeed \/ DeleteFirst

SpecDelete == Init /\ [][NextDelete]_vars

\* The tombstone row apply_delete writes for a Deletion.
TombstoneOf(change) ==
    [ id |-> change.id, record_type |-> RecordTypeToDb(change.record_type),
      deleted_at |-> to_rfc3339(change.deleted_at) ]

\* C31: a Deletion of a batch whose statements do not fail leaves no Task
\* row of its id, or no List row of its id unless that row is the inbox,
\* whatever the row's updated_at, and leaves one tombstone of the id, with
\* the Deletion's own deleted_at whatever deleted_at was stored; the store
\* the call leaves is the one its last record leaves.
C31_DeletionComparesNoTimestamp ==
    [][ FirstSent =>
           \A k \in 1 .. Len(sent'.batch) :
              LET change == sent'.batch[k]
                  before == AfterRecords(db, sent'.batch, k - 1)
                  r == ApplyOne(before, change)
              IN  ( /\ change.type = "deleted"
                    /\ \A j \in 1 .. k - 1 :
                          ApplyOne(AfterRecords(db, sent'.batch, j - 1),
                                   sent'.batch[j]).ok
                    /\ r.ok )
                  => /\ change.record_type = "Task"
                          => ~HasRow(r.db.tasks, change.id)
                     /\ change.record_type = "List"
                          => ( HasRow(r.db.lists, change.id)
                                 <=> IsInbox(before, change.id) )
                     /\ RowsById(r.db.tombstones, change.id)
                          = { TombstoneOf(change) }
                     /\ r.conflict = NoId
                     /\ k = Len(sent'.batch) => db' = r.db ]_vars

\* C31's case: one call deleted the Task at the latest time, wrote the Task
\* again with the latest updated_at and deleted it at time 0, without a
\* failed statement: the row, newer than the Deletion, is gone, and the
\* tombstone, newer than the Deletion, is replaced by the one of time 0.
C31_Witness ==
    /\ sent.phase = "first"
    /\ sent.ok
    /\ sent.batch = << Deletion("t1", "Task", MaxTime),
                       TaskChange(ATask("t1", 1, << >>, MaxTime)),
                       Deletion("t1", "Task", 0) >>
    /\ "t1" \in sent.accepted
    /\ ~HasRow(db.tasks, "t1")
    /\ RowsById(db.tombstones, "t1")
          = { TombstoneOf(Deletion("t1", "Task", 0)) }
    /\ MaxTime > 0

-----------------------------------------------------------------------------
(* SpecPartial: sync calls whose batch of several records can fail half way *)

\* sync: state.db.apply_changes(&request.changes)?  An Err leaves the handler
\* before get_changes_since and update_device_sync.
SyncApplyBatch(d, batch) ==
    /\ pc[d] \in { "idle", "failed" }
    /\ lock = NoDevice
    /\ LET r == apply_changes(db, batch)
       IN  /\ db' = r.db
           /\ conflicts' = [ conflicts EXCEPT ![d] = r.conflicts ]
           /\ pc' = [ pc EXCEPT ![d] = IF r.ok THEN "extract" ELSE "failed" ]
           /\ sent' = [ batch |-> batch, phase |-> "first", ok |-> r.ok,
                        accepted |-> AcceptedFrom(db, batch, 1) ]
    /\ UNCHANGED << foreign_keys, now, lock, n, wm, last, tombstoned,
                    everDeleted, unseen, own >>

PartialApply(d) == \E batch \in Batches(PartialChanges) : SyncApplyBatch(d, batch)

PartialExtract(d) == SyncExtractCall(d) /\ UNCHANGED unseen

\* The clock stands still: no statement of a failing call reads it.
NextPartial ==
    \E d \in Devices : PartialApply(d) \/ PartialExtract(d) \/ SyncRespond(d)

SpecPartial == Init /\ [][NextPartial]_vars

\* This step is the apply_changes of a sync call of device d: the clock and
\* the other devices stand still.
ApplyCall(d) ==
    /\ pc[d] \in { "idle", "failed" }
    /\ pc'[d] \in { "extract", "failed" }
    /\ sent'.phase = "first"
    /\ now' = now
    /\ \A e \in Devices \ { d } : pc'[e] = pc[e]

\* C32: when record k is the first of a sync call's batch on which a
\* statement fails, the store after the call is the store records 1..k-1 and
\* the statements of record k left, not the store before the call; the call
\* ends in an error with no conflict list, and neither the device's
\* watermark nor the device_sync table changes; and the only step a device
\* whose call failed takes is the apply_changes of a new call: the failed
\* call reaches neither get_changes_since nor update_device_sync.
C32_FailedBatchStaysApplied ==
    [][ \A d \in Devices :
          /\ ApplyCall(d) =>
                \A k \in 1 .. Len(sent'.batch) :
                   FirstFailure(db, sent'.batch, k) =>
                      /\ db' = AfterRecords(db, sent'.batch, k)
                      /\ pc'[d] = "failed"
                      /\ ~sent'.ok
                      /\ conflicts'[d] = << >>
                      /\ wm' = wm
                      /\ db'.device_sync = db.device_sync
          /\ ( pc[d] = "failed" /\ pc'[d] # "failed" )
                => /\ ApplyCall(d)
                   /\ db' = apply_changes(db, sent'.batch).db
                   /\ wm' = wm
                   /\ db'.device_sync = db.device_sync ]_vars

\* C32's case: device d2 stored List l1; with enforced foreign keys, the
\* first call of device d1, [Task t1, Deletion of List l1], failed on its
\* second record, which Task t1 makes fail: the Task the call inserted is
\* stored, and so is the tombstone the Deletion wrote before its DELETE
\* failed; d1 has no watermark and no row in device_sync.
C32_Witness ==
    /\ foreign_keys
    /\ pc["d1"] = "failed"
    /\ pc["d2"] = "idle"
    /\ sent.phase = "first"
    /\ ~sent.ok
    /\ sent.batch = << TaskChange(ATask("t1", 1, << >>, 0)),
                       Deletion("l1", "List", 0) >>
    /\ "t1" \in sent.accepted
    /\ HasRow(db.tasks, "t1")
    /\ HasRow(db.lists, "l1")
    /\ TombstoneOf(Deletion("l1", "List", 0)) \in db.tombstones
    /\ conflicts["d1"] = << >>
    /\ wm["d1"] = None
    /\ \A r \in db.device_sync : r.device_id # "d1"

====
